---- MODULE Spec2Model ----
(***************************************************************************)
(* TripAdvisorScraper (src/anihilator.py): the listing walk of             *)
(* scrape_restaurants, the detail crawl of _extract_restaurant_details and *)
(* the two field extractors _safe_extract_text / _safe_extract_attribute.  *)
(*                                                                         *)
(* A string is a sequence of one-character strings, so that strip(),       *)
(* startswith() and concatenation are computed, not assumed.  A DOM scope  *)
(* is the sequence of its elements in document order.  The site is the     *)
(* environment: what each page, card and control holds is chosen afresh at *)
(* every step that reads it (Playwright locators are resolved lazily).     *)
(***************************************************************************)
EXTENDS Integers, Sequences, FiniteSets, TLC

\* ------------------------------------------------------------------ bounds
MaxLimit == 2      \* largest limit argument explored
MaxCards == 2      \* most cards a listing page holds
MaxPages == 2      \* most listing pages the walk is let to count
MaxElems == 2      \* most elements of a scope handed to an extractor alone
MaxRaw == 6        \* most cuisine matches of a detail page taken alone

\* --------------------------------------------------------------- strings
\* Python's None (a missing attribute): a sequence no string equals
None == <<"None">>

IsSpace(c) == c = " "

RECURSIVE LStrip(_)
LStrip(s) == IF s # <<>> /\ IsSpace(Head(s)) THEN LStrip(Tail(s)) ELSE s

RECURSIVE RStrip(_)
RStrip(s) ==
    IF s # <<>> /\ IsSpace(s[Len(s)]) THEN RStrip(SubSeq(s, 1, Len(s) - 1)) ELSE s

\* str.strip()
Strip(s) == RStrip(LStrip(s))

\* str.startswith(prefix)
StartsWith(s, prefix) ==
    Len(s) >= Len(prefix) /\ SubSeq(s, 1, Len(prefix)) = prefix

\* self.base_url; the one character "O" stands for the origin
\* "https://www.tripadvisor.com"
base_url == <<"O">>

\* ------------------------------------------------------------------- DOM
\* An element: the one simple selector it matches (cls), its inner text, its
\* href attribute (None when it has none) and whether it can still be read
\* (live = FALSE: detached, or the read times out, so reading it raises).
Element(cls, text, href, live) ==
    [cls |-> cls, text |-> text, href |-> href, live |-> live]

\* A selector is the comma-separated list the source passes, as the sequence
\* of its simple selectors.  A CSS selector list matches an element that
\* matches any of its members.
Matches(el, selector) == \E k \in 1..Len(selector) : selector[k] = el.cls

RECURSIVE Select(_, _)
\* page.locator(selector): the matching elements, in document order
Select(scope, selector) ==
    IF scope = <<>> THEN <<>>
    ELSE IF Matches(Head(scope), selector)
         THEN <<Head(scope)>> \o Select(Tail(scope), selector)
         ELSE Select(Tail(scope), selector)

\* The outcome of a call: whether an exception left it, and the value
\* returned when none did.
Returned(v) == [raised |-> FALSE, value |-> v]
Raised == [raised |-> TRUE, value |-> <<>>]

\* The try body of _safe_extract_text: locator(selector).first, count(),
\* inner_text().strip().  gone = the scope itself cannot be queried (page
\* closed, navigation in flight), so count() raises.
TextTry(scope, selector, gone) ==
    LET found == Select(scope, selector) IN
    IF gone THEN Raised
    ELSE IF Len(found) > 0
         THEN IF found[1].live THEN Returned(Strip(found[1].text)) ELSE Raised
         ELSE Returned(<<>>)

\* _safe_extract_text without its handler
safe_extract_text_uncaught(scope, selector, gone) == TextTry(scope, selector, gone)

\* _safe_extract_text: the try body, every Exception swallowed into ""
safe_extract_text(scope, selector, gone) ==
    LET r == TextTry(scope, selector, gone) IN
    IF r.raised THEN Returned(<<>>) ELSE r

\* The try body of _safe_extract_attribute: get_attribute(attribute) or ""
AttrTry(scope, selector, gone) ==
    LET found == Select(scope, selector) IN
    IF gone THEN Raised
    ELSE IF Len(found) > 0
         THEN IF found[1].live
              THEN Returned(IF found[1].href = None THEN <<>> ELSE found[1].href)
              ELSE Raised
         ELSE Returned(<<>>)

\* _safe_extract_attribute, for the attribute href
safe_extract_attribute(scope, selector, gone) ==
    LET r == AttrTry(scope, selector, gone) IN
    IF r.raised THEN Returned(<<>>) ELSE r

\* ------------------------------------------------------ the card selectors
\* 'div[class*="biGQs"], .restaurant-name, h3'
NameSelector == <<"biGQs", "restaurant-name", "h3">>
\* 'a'
LinkSelector == <<"a">>

\* ---------------------------------------------------- the detail selectors
PhoneSelector == <<"phone-label+span", "phone-number">>
RatingSelector == <<"ZDEqb", "review-rating">>
AddressSelector == <<"maps", "geo">>
CuisineSelector == <<"detail-info-span", "cuisine">>
PriceSelector == <<"price-range", "has-dollar">>
ReviewsSelector == <<"has-review", "review-count">>

\* str.lower(), on the letters the model's tags are written in
LowerChar(c) ==
    CASE c = "M" -> "m" [] c = "E" -> "e" [] c = "N" -> "n" [] c = "U" -> "u"
      [] OTHER -> c

Lower(s) == [k \in 1..Len(s) |-> LowerChar(s[k])]

\* ['details', 'menu', 'photos']
NonDataLabels ==
    { <<"d", "e", "t", "a", "i", "l", "s">>, <<"m", "e", "n", "u">>,
      <<"p", "h", "o", "t", "o", "s">> }

\* the cap of cuisine_tags[:5]
CuisineCap == 5

RECURSIVE FilterTags(_)
\* [tag.strip() for tag in texts
\*     if tag.strip() and tag.lower() not in ['details', 'menu', 'photos']]
FilterTags(texts) ==
    IF texts = <<>> THEN <<>>
    ELSE LET tag == Head(texts) IN
         IF Strip(tag) # <<>> /\ Lower(tag) \notin NonDataLabels
         THEN <<Strip(tag)>> \o FilterTags(Tail(texts))
         ELSE FilterTags(Tail(texts))

\* the tags without the slice
FirstTags_all(tags) == tags

\* cuisine_tags[:5]
FirstTags(tags) == SubSeq(tags, 1, IF Len(tags) < CuisineCap THEN Len(tags) ELSE CuisineCap)

RECURSIVE Join(_)
\* ", ".join(tags)
Join(tags) ==
    IF tags = <<>> THEN <<>>
    ELSE IF Len(tags) = 1 THEN tags[1]
    ELSE tags[1] \o <<",", " ">> \o Join(Tail(tags))

\* all_inner_texts() of the matched elements, in document order
InnerTexts(found) == [k \in 1..Len(found) |-> found[k].text]

\* The cuisine block: count(), all_inner_texts(), filter, cap, join.  Reading
\* a matched element that is not live raises; this block has no handler of
\* its own.
CuisineTry(dom) ==
    LET found == Select(dom, CuisineSelector) IN
    IF \E k \in 1..Len(found) : ~found[k].live THEN Raised
    ELSE IF Len(found) > 0
         THEN Returned(Join(FirstTags(FilterTags(InnerTexts(found)))))
         ELSE Returned(<<>>)

\* details = {...}: every field the empty string
EmptyDetails ==
    [Phone |-> <<>>, Rating |-> <<>>, Address |-> <<>>, Cuisine |-> <<>>,
     Price_Range |-> <<>>, Reviews_Count |-> <<>>]

\* The statements of _extract_restaurant_details between the page load and
\* the handlers, on a detail page whose document is dom: the fields are
\* assigned in source order, and an exception of the cuisine block leaves the
\* try body, so the fields after it keep their initial "".
ExtractFields(dom) ==
    LET c == CuisineTry(dom)
        d1 == [EmptyDetails EXCEPT
                 !.Phone = safe_extract_text(dom, PhoneSelector, FALSE).value,
                 !.Rating = safe_extract_text(dom, RatingSelector, FALSE).value,
                 !.Address = safe_extract_text(dom, AddressSelector, FALSE).value]
    IN  IF c.raised THEN d1
        ELSE [d1 EXCEPT
                 !.Cuisine = c.value,
                 !.Price_Range = safe_extract_text(dom, PriceSelector, FALSE).value,
                 !.Reviews_Count = safe_extract_text(dom, ReviewsSelector, FALSE).value]

\* ------------------------------------------------------- the environment
\* Inner texts a card's name element may hold: white space only, a name with
\* white space around it.
NameTexts == { <<" ">>, <<" ", "a", " ">> }

\* href values a card's anchor may hold: none, empty, path-relative,
\* absolute ("h" stands for "https://host"), relative without a slash.
Hrefs == { None, <<>>, <<"/", "x">>, <<"h", "x">>, <<"x">> }

NameElems ==
    { Element(c, t, None, l) :
        c \in {"biGQs", "restaurant-name", "h3"}, t \in NameTexts, l \in BOOLEAN }

Anchors == { Element("a", <<>>, h, l) : h \in Hrefs, l \in BOOLEAN }

\* The documents a listing card may hold: at most one name element and at
\* most one anchor.
Cards ==
    { n \o a : n \in {<<>>} \cup { <<e>> : e \in NameElems },
               a \in {<<>>} \cup { <<e>> : e \in Anchors } }

Span(cls, text, live) == Element(cls, text, None, live)

\* The documents a detail page may hold: nothing the selectors match; every
\* field, with a non-data label and a padded tag among the cuisine spans; a
\* cuisine span that cannot be read, followed by a price.
EmptyDom == <<>>
FullDom ==
    << Span("phone-number", <<"1">>, TRUE), Span("ZDEqb", <<"5">>, TRUE),
       Span("maps", <<"r">>, TRUE),
       Span("detail-info-span", <<"M", "e", "n", "u">>, TRUE),
       Span("cuisine", <<" ", "t">>, TRUE),
       Span("price-range", <<"$">>, TRUE), Span("review-count", <<"9">>, TRUE) >>
BrokenDom ==
    << Span("cuisine", <<"t">>, FALSE), Span("price-range", <<"$">>, TRUE) >>
DetailDoms == { EmptyDom, FullDom, BrokenDom }

\* ----------------------------------------------------------------- state
VARIABLES
    pc,             \* where scrape_restaurants stands
    limit,          \* the limit argument
    data,           \* data: the records appended so far
    scraped_count,  \* scraped_count
    page_count,     \* page_count
    cards_count,    \* cards_count of the page being scanned
    i,              \* the for loop's index, 0-based
    name, link, full_link,   \* the card's locals
    details,        \* the dict _extract_restaurant_details builds
    detail_page,    \* detail_page: "none" (None), "open" or "closed"
    browser,        \* "none" (not launched), "open" or "closed"
    sel,            \* position in next_selectors, 1-based
    next_clicked,   \* next_clicked
    returned,       \* rows of the DataFrame handed back (pc = "done")
    csv,            \* rows written by df.to_csv
    \* history of the run, read by no action
    disc,           \* <<page_count, i>> of the record appended last
    fetches,        \* detail pages asked for (browser.new_page calls)
    clicks,         \* next controls clicked
    closes,         \* browser.close() calls
    navFailed,      \* the detail page of the card at hand failed to load
    loadFailedAt,   \* page_count when wait_for_selector timed out, else 0
    open_pages,     \* detail pages opened and not yet closed
    ending,         \* what ended the walk, "none" while it goes on
    step_clicks,    \* next controls clicked in the advancing step at hand
    card_failed,    \* the card read last was left through its except clause
    \* the extractors taken alone
    x_pc, x_scope, x_gone, x_out,
    \* the fields of one loaded detail page, taken alone
    d_pc, d_dom, d_out

walk_vars ==
    << pc, limit, data, scraped_count, page_count, cards_count, i, name, link,
       full_link, details, detail_page, browser, sel, next_clicked, returned,
       csv, disc, fetches, clicks, closes, navFailed, loadFailedAt, open_pages,
       ending, step_clicks, card_failed >>
x_vars == << x_pc, x_scope, x_gone, x_out >>
d_vars == << d_pc, d_dom, d_out >>
vars == << walk_vars, x_vars, d_vars >>

\* len(next_selectors)
NumNextSelectors == 4

WalkInit ==
    /\ pc = "launch"
    /\ limit \in 1..MaxLimit
    /\ data = <<>>
    /\ scraped_count = 0
    /\ page_count = 0
    /\ cards_count = 0
    /\ i = 0
    /\ name = <<>> /\ link = <<>> /\ full_link = <<>>
    /\ details = EmptyDetails
    /\ detail_page = "none"
    /\ browser = "none"
    /\ sel = 1
    /\ next_clicked = FALSE
    /\ returned = <<>>
    /\ csv = <<>>
    /\ disc = <<0, 0>>
    /\ fetches = 0
    /\ clicks = 0
    /\ closes = 0
    /\ navFailed = FALSE
    /\ loadFailedAt = 0
    /\ open_pages = 0
    /\ ending = "none"
    /\ step_clicks = 0
    /\ card_failed = FALSE

XIdle == x_pc = "off" /\ x_scope = <<>> /\ x_gone = FALSE /\ x_out = Returned(<<>>)

DIdle == d_pc = "off" /\ d_dom = <<>> /\ d_out = EmptyDetails

Init == WalkInit /\ XIdle /\ DIdle

\* n + 1.  The walk's counters have no bound of their own; a counter that has
\* reached cap stays there, which happens only where the site is let to offer
\* a next control without end (UnboundedSpec).
Count(n, cap) == IF n < cap THEN n + 1 ELSE cap


\* --------------------------------------------------- scrape_restaurants
\* p.chromium.launch(...): the browser starts, or the launch raises and the
\* exception leaves scrape_restaurants (the try begins only after it).
Launch ==
    /\ pc = "launch"
    /\ \/ browser' = "open" /\ pc' = "open"
       \/ browser' = browser /\ pc' = "raised"
    /\ UNCHANGED << x_vars, d_vars, card_failed >>
    /\ UNCHANGED << csv, ending, step_clicks >>
    /\ UNCHANGED << limit, data, scraped_count, page_count, cards_count, i, name,
                    link, full_link, details, detail_page, sel, next_clicked,
                    returned, disc, fetches, clicks, closes, navFailed,
                    loadFailedAt, open_pages >>

\* browser.new_page(), set_default_timeout, goto, wait_for_load_state: all
\* succeed, or one raises into the outer handler.
OpenListing ==
    /\ pc = "open"
    /\ \/ pc' = "while" /\ ending' = ending
       \/ pc' = "finally" /\ ending' = "error"
    /\ UNCHANGED << x_vars, d_vars, card_failed >>
    /\ UNCHANGED << csv, step_clicks >>
    /\ UNCHANGED << limit, data, scraped_count, page_count, cards_count, i, name,
                    link, full_link, details, detail_page, browser, sel,
                    next_clicked, returned, disc, fetches, clicks, closes,
                    navFailed, loadFailedAt, open_pages >>

\* while scraped_count < limit: page_count += 1
WhileCheck ==
    /\ pc = "while"
    /\ IF scraped_count < limit
       THEN /\ page_count' = Count(page_count, MaxPages)
            /\ pc' = "wait" /\ ending' = ending
       ELSE /\ page_count' = page_count
            /\ pc' = "finally" /\ ending' = "limit"
    /\ UNCHANGED << x_vars, d_vars, card_failed >>
    /\ UNCHANGED << csv, step_clicks >>
    /\ UNCHANGED << limit, data, scraped_count, cards_count, i, name, link,
                    full_link, details, detail_page, browser, sel, next_clicked,
                    returned, disc, fetches, clicks, closes, navFailed,
                    loadFailedAt, open_pages >>

\* a wait whose timeout is swallowed: the walk goes on to locate the cards
WaitForCards_continue ==
    /\ pc = "wait"
    /\ pc' = "locate"
    /\ loadFailedAt' \in {loadFailedAt, page_count}
    /\ UNCHANGED << x_vars, d_vars, card_failed >>
    /\ UNCHANGED << csv, ending, step_clicks >>
    /\ UNCHANGED << limit, data, scraped_count, page_count, cards_count, i, name,
                    link, full_link, details, detail_page, browser, sel,
                    next_clicked, returned, disc, fetches, clicks, closes,
                    navFailed, open_pages >>

\* page.wait_for_selector('[data-test="restaurant-list"]', timeout=15000):
\* the container appears, or the wait times out into the outer handler.
WaitForCards ==
    /\ pc = "wait"
    /\ \/ pc' = "locate" /\ loadFailedAt' = loadFailedAt /\ ending' = ending
       \/ pc' = "finally" /\ loadFailedAt' = page_count /\ ending' = "error"
    /\ UNCHANGED << x_vars, d_vars, card_failed >>
    /\ UNCHANGED << csv, step_clicks >>
    /\ UNCHANGED << limit, data, scraped_count, page_count, cards_count, i, name,
                    link, full_link, details, detail_page, browser, sel,
                    next_clicked, returned, disc, fetches, clicks, closes,
                    navFailed, open_pages >>

\* cards = page.locator(...); cards_count = cards.count(); no card: break
LocateCards ==
    /\ pc = "locate"
    /\ \E n \in 0..MaxCards :
          /\ cards_count' = n
          /\ i' = 0
          /\ pc' = IF n = 0 THEN "finally" ELSE "for"
          /\ ending' = IF n = 0 THEN "no_cards" ELSE ending
    /\ UNCHANGED << x_vars, d_vars, card_failed >>
    /\ UNCHANGED << csv, step_clicks >>
    /\ UNCHANGED << limit, data, scraped_count, page_count, name, link,
                    full_link, details, detail_page, browser, sel, next_clicked,
                    returned, disc, fetches, clicks, closes, navFailed,
                    loadFailedAt, open_pages >>

\* cards.count() raises into the outer handler
LocateCardsRaises ==
    /\ pc = "locate"
    /\ pc' = "finally"
    /\ ending' = "error"
    /\ UNCHANGED << x_vars, d_vars, card_failed >>
    /\ UNCHANGED << csv, step_clicks >>
    /\ UNCHANGED << limit, data, scraped_count, page_count, cards_count, i, name,
                    link, full_link, details, detail_page, browser, sel,
                    next_clicked, returned, disc, fetches, clicks, closes,
                    navFailed, loadFailedAt, open_pages >>

\* the for loop without its limit test
ForCheck_nolimit ==
    /\ pc = "for"
    /\ pc' = IF i < cards_count THEN "card" ELSE "advance"
    /\ UNCHANGED << x_vars, d_vars, card_failed >>
    /\ UNCHANGED << csv, ending, step_clicks >>
    /\ UNCHANGED << limit, data, scraped_count, page_count, cards_count, i, name,
                    link, full_link, details, detail_page, browser, sel,
                    next_clicked, returned, disc, fetches, clicks, closes,
                    navFailed, loadFailedAt, open_pages >>

\* for i in range(cards_count): if scraped_count >= limit: break
ForCheck ==
    /\ pc = "for"
    /\ pc' = IF i < cards_count /\ scraped_count < limit THEN "card" ELSE "advance"
    /\ UNCHANGED << x_vars, d_vars, card_failed >>
    /\ UNCHANGED << csv, ending, step_clicks >>
    /\ UNCHANGED << limit, data, scraped_count, page_count, cards_count, i, name,
                    link, full_link, details, detail_page, browser, sel,
                    next_clicked, returned, disc, fetches, clicks, closes,
                    navFailed, loadFailedAt, open_pages >>

\* full_link = f"{self.base_url}{link}" if link.startswith('/') else link
FullLink(l) == IF StartsWith(l, <<"/">>) THEN base_url \o l ELSE l

\* the card test without "if not link: continue"
Viable_nameOnly(n, l) == n # <<>>

\* Whether the card goes on to the detail crawl: if not name: continue;
\* if not link: continue
Viable(n, l) == n # <<>> /\ l # <<>>

\* The card's name and link are read; a card without one or the other is
\* passed over (continue), any other card enters _extract_restaurant_details
\* (details = {...}, detail_page = None).  link is read only after a name was
\* found.
ScanCard ==
    /\ pc = "card"
    /\ card_failed' = FALSE
    /\ \E card \in Cards :
          LET n == safe_extract_text(card, NameSelector, FALSE).value
              l == safe_extract_attribute(card, LinkSelector, FALSE).value
          IN  /\ name' = n
              /\ link' = IF n = <<>> THEN link ELSE l
              /\ IF Viable(n, l)
                 THEN /\ full_link' = FullLink(l)
                      /\ details' = EmptyDetails
                      /\ detail_page' = "none"
                      /\ navFailed' = FALSE
                      /\ i' = i
                      /\ pc' = "d_new"
                 ELSE /\ i' = i + 1
                      /\ pc' = "for"
                      /\ UNCHANGED << full_link, details, detail_page, navFailed >>
    /\ UNCHANGED << x_vars, d_vars >>
    /\ UNCHANGED << csv, ending, step_clicks >>
    /\ UNCHANGED << limit, data, scraped_count, page_count, cards_count, browser,
                    sel, next_clicked, returned, disc, fetches, clicks, closes,
                    loadFailedAt, open_pages >>

\* ------------------------------------------- _extract_restaurant_details
\* detail_page = browser.new_page(): a page opens, or the call raises and
\* detail_page stays None.
DetailNewPage ==
    /\ pc = "d_new"
    /\ fetches' = fetches + 1
    /\ \/ /\ detail_page' = "open" /\ open_pages' = open_pages + 1
          /\ pc' = "d_goto" /\ navFailed' = navFailed
       \/ /\ detail_page' = detail_page /\ open_pages' = open_pages
          /\ pc' = "d_finally" /\ navFailed' = TRUE
    /\ UNCHANGED << x_vars, d_vars, card_failed >>
    /\ UNCHANGED << csv, ending, step_clicks >>
    /\ UNCHANGED << limit, data, scraped_count, page_count, cards_count, i, name,
                    link, full_link, details, browser, sel, next_clicked,
                    returned, disc, clicks, closes, loadFailedAt >>

\* detail_page.goto(...); wait_for_load_state("networkidle"): the page
\* loads, or one of them raises into the handler of the function.
DetailGoto ==
    /\ pc = "d_goto"
    /\ \/ pc' = "d_extract" /\ navFailed' = navFailed
       \/ pc' = "d_finally" /\ navFailed' = TRUE
    /\ UNCHANGED << x_vars, d_vars, card_failed >>
    /\ UNCHANGED << csv, ending, step_clicks >>
    /\ UNCHANGED << limit, data, scraped_count, page_count, cards_count, i, name,
                    link, full_link, details, detail_page, browser, sel,
                    next_clicked, returned, disc, fetches, clicks, closes,
                    loadFailedAt, open_pages >>

\* the six fields are read off the loaded page
DetailExtract ==
    /\ pc = "d_extract"
    /\ \E dom \in DetailDoms : details' = ExtractFields(dom)
    /\ pc' = "d_finally"
    /\ UNCHANGED << x_vars, d_vars, card_failed >>
    /\ UNCHANGED << csv, ending, step_clicks >>
    /\ UNCHANGED << limit, data, scraped_count, page_count, cards_count, i, name,
                    link, full_link, detail_page, browser, sel, next_clicked,
                    returned, disc, fetches, clicks, closes, navFailed,
                    loadFailedAt, open_pages >>

\* a finally clause that closes nothing
ClosePage_leak(p) == p

\* finally: if detail_page: detail_page.close()
ClosePage(p) == IF p = "open" THEN "closed" ELSE p

\* _extract_restaurant_details without its except clause: a failed page
\* load leaves the function as an exception, which the card's handler
\* answers with continue
DetailFinally_propagate ==
    /\ pc = "d_finally"
    /\ detail_page' = ClosePage(detail_page)
    /\ open_pages' = IF detail_page = "open" /\ detail_page' = "closed"
                     THEN open_pages - 1 ELSE open_pages
    /\ IF navFailed THEN pc' = "for" /\ i' = i + 1 ELSE pc' = "append" /\ i' = i
    /\ UNCHANGED << x_vars, d_vars, card_failed >>
    /\ UNCHANGED << csv, ending, step_clicks >>
    /\ UNCHANGED << limit, data, scraped_count, page_count, cards_count, name,
                    link, full_link, details, browser, sel, next_clicked,
                    returned, disc, fetches, clicks, closes, navFailed,
                    loadFailedAt >>

\* the finally clause, then return details
DetailFinally ==
    /\ pc = "d_finally"
    /\ detail_page' = ClosePage(detail_page)
    /\ open_pages' = IF detail_page = "open" /\ detail_page' = "closed"
                     THEN open_pages - 1 ELSE open_pages
    /\ pc' = "append"
    /\ UNCHANGED << x_vars, d_vars, card_failed >>
    /\ UNCHANGED << csv, ending, step_clicks >>
    /\ UNCHANGED << limit, data, scraped_count, page_count, cards_count, i, name,
                    link, full_link, details, browser, sel, next_clicked,
                    returned, disc, fetches, clicks, closes, navFailed,
                    loadFailedAt >>

\* restaurant_data = {"Name": ..., "Link": ..., "Page_Number": ..., **details}
\* (Scraped_At, the wall clock at this line, is left out: nothing reads it)
Record(n, fl, pg, d) ==
    [Name |-> n, Link |-> fl, Page_Number |-> pg, Phone |-> d.Phone,
     Rating |-> d.Rating, Address |-> d.Address, Cuisine |-> d.Cuisine,
     Price_Range |-> d.Price_Range, Reviews_Count |-> d.Reviews_Count]

\* data.insert(0, restaurant_data) in place of data.append
AppendRecord_prepend ==
    /\ pc = "append"
    /\ data' = <<Record(name, full_link, page_count, details)>> \o data
    /\ scraped_count' = scraped_count + 1
    /\ disc' = <<page_count, i>>
    /\ i' = i + 1
    /\ pc' = "for"
    /\ UNCHANGED << x_vars, d_vars, card_failed >>
    /\ UNCHANGED << csv, ending, step_clicks >>
    /\ UNCHANGED << limit, page_count, cards_count, name, link, full_link,
                    details, detail_page, browser, sel, next_clicked, returned,
                    fetches, clicks, closes, navFailed, loadFailedAt, open_pages >>

\* data.append(restaurant_data); scraped_count += 1; sleep; next card
AppendRecord ==
    /\ pc = "append"
    /\ data' = Append(data, Record(name, full_link, page_count, details))
    /\ scraped_count' = scraped_count + 1
    /\ disc' = <<page_count, i>>
    /\ i' = i + 1
    /\ pc' = "for"
    /\ UNCHANGED << x_vars, d_vars, card_failed >>
    /\ UNCHANGED << csv, ending, step_clicks >>
    /\ UNCHANGED << limit, page_count, cards_count, name, link, full_link,
                    details, detail_page, browser, sel, next_clicked, returned,
                    fetches, clicks, closes, navFailed, loadFailedAt, open_pages >>

\* ------------------------------------------------------------ advancing
\* if scraped_count < limit: next_clicked = False; for selector in ...
\* otherwise the loop goes back to its condition.
\* The locals of the page left behind (cards_count, i), and below the place
\* in next_selectors once that loop is left, are read no more: they go back
\* to their first values, so that states differing only in them are one.
\* So do the notes kept on the page's last card and on the step's clicks.
Advance ==
    /\ pc = "advance"
    /\ IF scraped_count < limit
       THEN sel' = 1 /\ next_clicked' = FALSE /\ pc' = "next"
       ELSE sel' = sel /\ next_clicked' = next_clicked /\ pc' = "while"
    /\ cards_count' = 0 /\ i' = 0
    /\ step_clicks' = 0
    /\ card_failed' = FALSE
    /\ UNCHANGED << x_vars, d_vars >>
    /\ UNCHANGED << csv, ending >>
    /\ UNCHANGED << limit, data, scraped_count, page_count, name, link,
                    full_link, details, detail_page, browser, returned, disc,
                    fetches, clicks, closes, navFailed, loadFailedAt, open_pages >>

\* One selector of next_selectors: the control is absent or disabled, or
\* locating it raises: on to the next selector.
NextMiss ==
    /\ pc = "next" /\ sel <= NumNextSelectors
    /\ sel' = sel + 1
    /\ UNCHANGED << x_vars, d_vars, card_failed >>
    /\ UNCHANGED << csv, ending, step_clicks >>
    /\ UNCHANGED << pc, limit, data, scraped_count, page_count, cards_count, i,
                    name, link, full_link, details, detail_page, browser,
                    next_clicked, returned, disc, fetches, clicks, closes,
                    navFailed, loadFailedAt, open_pages >>

\* The control is found enabled and clicked.  Either the wait for network
\* idle returns (next_clicked = True; break) or it times out into the
\* handler of this selector, which goes on to the next selector.
\* bounded: the site stops offering a control once MaxPages pages were
\* counted or MaxPages controls were clicked.
NextClick(bounded) ==
    /\ pc = "next" /\ sel <= NumNextSelectors
    /\ bounded => page_count < MaxPages /\ clicks < MaxPages
    /\ clicks' = Count(clicks, MaxPages)
    /\ \/ /\ next_clicked' = TRUE /\ sel' = 1 /\ pc' = "while"
          /\ step_clicks' = 0
       \/ /\ next_clicked' = next_clicked /\ sel' = sel + 1 /\ pc' = pc
          /\ step_clicks' = step_clicks + 1
    /\ UNCHANGED << x_vars, d_vars, card_failed >>
    /\ UNCHANGED << csv, ending >>
    /\ UNCHANGED << limit, data, scraped_count, page_count, cards_count, i, name,
                    link, full_link, details, detail_page, browser, returned,
                    disc, fetches, closes, navFailed, loadFailedAt, open_pages >>

\* the selectors used up without a click taken for a failure of the walk:
\* raise in place of break
NextExhausted_raise ==
    /\ pc = "next" /\ sel > NumNextSelectors
    /\ pc' = "finally"
    /\ ending' = "error"
    /\ sel' = 1
    /\ step_clicks' = 0
    /\ UNCHANGED << x_vars, d_vars, card_failed >>
    /\ UNCHANGED csv
    /\ UNCHANGED << limit, data, scraped_count, page_count, cards_count, i, name,
                    link, full_link, details, detail_page, browser,
                    next_clicked, returned, disc, fetches, clicks, closes,
                    navFailed, loadFailedAt, open_pages >>

\* the selectors are used up: if not next_clicked: break
NextExhausted ==
    /\ pc = "next" /\ sel > NumNextSelectors
    /\ pc' = IF next_clicked THEN "while" ELSE "finally"
    /\ ending' = IF next_clicked THEN ending ELSE "no_next"
    /\ sel' = 1
    /\ step_clicks' = 0
    /\ UNCHANGED << x_vars, d_vars, card_failed >>
    /\ UNCHANGED csv
    /\ UNCHANGED << limit, data, scraped_count, page_count, cards_count, i, name,
                    link, full_link, details, detail_page, browser,
                    next_clicked, returned, disc, fetches, clicks, closes,
                    navFailed, loadFailedAt, open_pages >>

\* --------------------------------------------- exceptions and interrupts
\* the card's try block without its except clause: the exception reaches
\* the outer handler and ends the walk
CardRaises_abort ==
    /\ pc = "card"
    /\ pc' = "finally"
    /\ card_failed' = TRUE
    /\ ending' = "error"
    /\ UNCHANGED << x_vars, d_vars >>
    /\ UNCHANGED << csv, step_clicks >>
    /\ UNCHANGED << limit, data, scraped_count, page_count, cards_count, i, name,
                    link, full_link, details, detail_page, browser, sel,
                    next_clicked, returned, disc, fetches, clicks, closes,
                    navFailed, loadFailedAt, open_pages >>

\* try: card = cards.nth(i) ... except Exception as e: logger.error(...);
\* continue.  A statement of the try block raises an Exception while card i
\* is read, ahead of the detail crawl: the handler logs it and the for loop
\* goes on with card i + 1.  (_extract_restaurant_details answers its own
\* exceptions: DetailNewPage, DetailGoto, DetailFinally.)
CardRaises ==
    /\ pc = "card"
    /\ i' = i + 1
    /\ card_failed' = TRUE
    /\ pc' = "for"
    /\ UNCHANGED << x_vars, d_vars >>
    /\ UNCHANGED << csv, ending, step_clicks >>
    /\ UNCHANGED << limit, data, scraped_count, page_count, cards_count, name,
                    link, full_link, details, detail_page, browser, sel,
                    next_clicked, returned, disc, fetches, clicks, closes,
                    navFailed, loadFailedAt, open_pages >>

\* Where the walk waits on the browser or sleeps: the page loads and waits,
\* the locators' reads, the detail crawl, time.sleep(1) after an append
\* ("for") and the clicks.
InterruptPcs ==
    {"open", "wait", "locate", "for", "card", "d_new", "d_goto", "d_extract",
     "next"}

\* A stop signal (KeyboardInterrupt) arrives at one of these points.  It is
\* a BaseException and no Exception: every "except Exception" of the walk
\* lets it pass.  The finally clauses run on its way out: detail_page.close()
\* when it struck inside _extract_restaurant_details, then browser.close()
\* (Finally), and it leaves scrape_restaurants ahead of pd.DataFrame(data).
Interrupt ==
    /\ pc \in InterruptPcs
    /\ detail_page' = IF pc \in {"d_goto", "d_extract"}
                      THEN ClosePage(detail_page) ELSE detail_page
    /\ open_pages' = IF detail_page = "open" /\ detail_page' = "closed"
                     THEN open_pages - 1 ELSE open_pages
    /\ ending' = "interrupt"
    /\ pc' = "finally"
    /\ UNCHANGED << x_vars, d_vars, card_failed >>
    /\ UNCHANGED << csv, step_clicks >>
    /\ UNCHANGED << limit, data, scraped_count, page_count, cards_count, i, name,
                    link, full_link, details, browser, sel, next_clicked,
                    returned, disc, fetches, clicks, closes, navFailed,
                    loadFailedAt >>

\* ------------------------------------------------------------- the end
\* finally: browser.close(); reached from the loop's exits and from the
\* outer except clause alike
CloseBrowser(b) == "closed"

\* the end of the run without the finally clause
Finally_noClose ==
    /\ pc = "finally"
    /\ pc' = "save"
    /\ UNCHANGED << x_vars, d_vars, card_failed >>
    /\ UNCHANGED << csv, ending, step_clicks >>
    /\ UNCHANGED << limit, data, scraped_count, page_count, cards_count, i, name,
                    link, full_link, details, detail_page, browser, sel,
                    next_clicked, returned, disc, fetches, clicks, closes,
                    navFailed, loadFailedAt, open_pages >>

Finally ==
    /\ pc = "finally"
    /\ browser' = CloseBrowser(browser)
    /\ closes' = closes + 1
    /\ pc' = IF ending = "interrupt" THEN "interrupted" ELSE "save"
    /\ UNCHANGED << x_vars, d_vars, card_failed >>
    /\ UNCHANGED << csv, ending, step_clicks >>
    /\ UNCHANGED << limit, data, scraped_count, page_count, cards_count, i, name,
                    link, full_link, details, detail_page, sel, next_clicked,
                    returned, disc, fetches, clicks, navFailed, loadFailedAt, open_pages >>

\* df = pd.DataFrame(data); to_csv when not empty; return df
Save ==
    /\ pc = "save"
    /\ returned' = data
    /\ csv' = data
    /\ pc' = "done"
    /\ UNCHANGED << x_vars, d_vars, card_failed >>
    /\ UNCHANGED << ending, step_clicks >>
    /\ UNCHANGED << limit, data, scraped_count, page_count, cards_count, i, name,
                    link, full_link, details, detail_page, browser, sel,
                    next_clicked, disc, fetches, clicks, closes, navFailed,
                    loadFailedAt, open_pages >>

WalkStep(bounded) ==
    \/ Launch \/ OpenListing \/ WhileCheck \/ WaitForCards \/ LocateCards
    \/ LocateCardsRaises \/ ForCheck \/ ScanCard \/ DetailNewPage \/ DetailGoto
    \/ DetailExtract \/ DetailFinally \/ AppendRecord \/ Advance \/ NextMiss
    \/ NextClick(bounded) \/ NextExhausted \/ CardRaises \/ Interrupt
    \/ Finally \/ Save

Next == WalkStep(TRUE)

Spec == Init /\ [][Next]_vars

\* The walk against a site that may offer a next control on every page,
\* without end.  The program is one sequential thread that runs whenever it
\* has a step to take.
UnboundedNext == WalkStep(FALSE)

UnboundedSpec == Init /\ [][UnboundedNext]_vars /\ WF_vars(UnboundedNext)

\* ------------------------------------------- the extractors taken alone
\* The elements of a scope handed to an extractor: name elements with
\* different texts, anchors, and an element no selector matches.
XTexts == { <<"a">>, <<" ", "b">>, <<" ">> }
XElems ==
    { Element(c, t, None, l) :
        c \in {"biGQs", "restaurant-name", "h3"}, t \in XTexts, l \in BOOLEAN }
    \cup { Element("a", <<>>, h, l) : h \in {None, <<>>, <<"/", "x">>}, l \in BOOLEAN }
    \cup { Element("p", <<"a">>, None, TRUE) }

\* the scopes of at most n elements
Scopes(n) == UNION { [1..k -> XElems] : k \in 0..n }

XInit ==
    /\ x_pc = "in"
    /\ x_scope \in Scopes(MaxElems)
    /\ x_gone \in BOOLEAN
    /\ x_out = Returned(<<>>)

\* name = self._safe_extract_text(card, 'div[class*="biGQs"], .restaurant-name, h3')
XText ==
    /\ x_pc = "in"
    /\ x_out' = safe_extract_text(x_scope, NameSelector, x_gone)
    /\ x_pc' = "text"
    /\ UNCHANGED << x_scope, x_gone >>
    /\ UNCHANGED << walk_vars, d_vars >>

\* link = self._safe_extract_attribute(card, 'a', 'href')
XAttr ==
    /\ x_pc = "in"
    /\ x_out' = safe_extract_attribute(x_scope, LinkSelector, x_gone)
    /\ x_pc' = "attr"
    /\ UNCHANGED << x_scope, x_gone >>
    /\ UNCHANGED << walk_vars, d_vars >>

ExtractNext == XText \/ XAttr

ExtractInit == WalkInit /\ limit = 1 /\ XInit /\ DIdle

ExtractSpec == ExtractInit /\ [][ExtractNext]_vars

\* ------------------------------- the fields of a detail page taken alone
\* Inner texts a cuisine match may hold: a tag, a tag with white space around
\* it, a non-data label in capitals, one with white space ahead of it, and
\* white space only.
TagTexts ==
    { <<"t">>, <<" ", "s", " ">>, <<"M", "E", "N", "U">>,
      <<" ", "m", "e", "n", "u">>, <<" ">> }

\* an element of a detail page: absent, present, or present and detached
\* by the time it is read
Opt(cls, text) == { <<>>, <<Span(cls, text, TRUE)>>, <<Span(cls, text, FALSE)>> }

\* detail pages with each field's element absent, readable or detached
FieldDocs ==
    { p \o r \o a \o c \o pr \o rv :
        p \in Opt("phone-number", <<"1">>), r \in Opt("ZDEqb", <<"5">>),
        a \in Opt("maps", <<"r">>), c \in Opt("cuisine", <<"t">>),
        pr \in Opt("price-range", <<"$">>), rv \in Opt("review-count", <<"9">>) }

\* The page that has loaded: one of FieldDocs, or MaxRaw cuisine matches at
\* most, all readable, with any of TagTexts.
DetailInit ==
    /\ WalkInit /\ limit = 1 /\ XIdle
    /\ d_pc = "in"
    /\ \/ d_dom \in FieldDocs
       \/ \E m \in 0..MaxRaw : \E t \in [1..m -> TagTexts] :
             d_dom = [k \in 1..m |-> Span("cuisine", t[k], TRUE)]
    /\ d_out = EmptyDetails

\* the try body of _extract_restaurant_details once the page has loaded,
\* with the handler that answers an exception of the cuisine block
DetailFields ==
    /\ d_pc = "in"
    /\ d_out' = ExtractFields(d_dom)
    /\ d_pc' = "out"
    /\ UNCHANGED d_dom
    /\ UNCHANGED << walk_vars, x_vars >>

DetailNext == DetailFields

DetailSpec == DetailInit /\ [][DetailNext]_vars

\* A candidate resolves inside a scope when an element matches it and the
\* first such element can be read.
Resolves(scope, candidate) ==
    LET found == Select(scope, <<candidate>>) IN
    Len(found) > 0 /\ found[1].live

\* the position of the earliest candidate of the list that resolves
FirstResolving(scope, selector) ==
    CHOOSE k \in 1..Len(selector) :
        /\ Resolves(scope, selector[k])
        /\ \A j \in 1..(k - 1) : ~Resolves(scope, selector[j])

\* C4: when at least one candidate of the list resolves inside the scope,
\* text extraction returns the trimmed text of the element matched by the
\* earliest resolving candidate in list order, wherever the matching
\* elements stand in the document.  (Stated for scopes whose elements can
\* all be read, where resolving is matching.)
C4_EarliestCandidateWins ==
    (/\ x_pc = "text"
     /\ ~x_gone
     /\ \A k \in 1..Len(x_scope) : x_scope[k].live
     /\ \E k \in 1..Len(NameSelector) : Resolves(x_scope, NameSelector[k]))
    => x_out =
         Returned(Strip(Select(x_scope,
             <<NameSelector[FirstResolving(x_scope, NameSelector)]>>)[1].text))

\* What makes a resolution fail: the scope cannot be queried, no element
\* matches, or the first match cannot be read.
ResolutionFails(scope, selector, gone) ==
    \/ gone
    \/ Select(scope, selector) = <<>>
    \/ ~Select(scope, selector)[1].live

\* C5: neither extractor lets an exception out, and every resolution
\* failure (and a missing attribute) comes back as the empty string.
C5_FailureIsEmptyString ==
    /\ x_pc \in {"text", "attr"} => ~x_out.raised
    /\ (x_pc = "text" /\ ResolutionFails(x_scope, NameSelector, x_gone))
         => x_out = Returned(<<>>)
    /\ (x_pc = "attr" /\ ResolutionFails(x_scope, LinkSelector, x_gone))
         => x_out = Returned(<<>>)
    /\ (/\ x_pc = "attr"
        /\ ~ResolutionFails(x_scope, LinkSelector, x_gone)
        /\ Select(x_scope, LinkSelector)[1].href = None)
         => x_out = Returned(<<>>)

\* a detached name element was read, and the empty string came back
C5_Witness ==
    /\ x_pc = "text"
    /\ ~x_gone
    /\ Select(x_scope, NameSelector) # <<>>
    /\ ~Select(x_scope, NameSelector)[1].live
    /\ x_out = Returned(<<>>)

\* ------------------------------------------------- the walk: properties
\* "interrupted": the stop signal has left scrape_restaurants
Terminal == pc \in {"done", "raised", "interrupted"}

\* where the walk stands inside _extract_restaurant_details
DetailPcs == {"d_new", "d_goto", "d_extract", "d_finally"}

\* C1: the listing walk always terminates, also against a next control that
\* is found enabled on every page while no page yields a viable card.
C1_WalkTerminates == <>Terminal

\* C2: the number of emitted records never exceeds limit, and once it has
\* reached limit no detail page is fetched and no next control is clicked.
C2_LimitRespected ==
    /\ [](Len(data) <= limit /\ scraped_count = Len(data))
    /\ [][scraped_count >= limit => fetches' = fetches /\ clicks' = clicks]_vars

\* the limit was reached with a card of the page still unscanned
C2_Witness ==
    pc = "advance" /\ scraped_count = limit /\ i < cards_count /\ clicks = 0

\* C3: a card whose name or whose link resolves to the empty string gets no
\* record and no detail page, and leaves the emitted count as it was.
C3_NonViableCardSkipped ==
    /\ [][(/\ pc = "card" /\ pc' # "card" /\ ending' # "interrupt"
            /\ (name' = <<>> \/ link' = <<>>))
            => /\ data' = data
               /\ scraped_count' = scraped_count
               /\ fetches' = fetches
               /\ pc' = "for" /\ i' = i + 1]_vars
    /\ [](pc \in DetailPcs \cup {"append"} => name # <<>> /\ link # <<>>)
    /\ [](\A k \in 1..Len(data) : data[k].Name # <<>> /\ data[k].Link # <<>>)

\* a card with a name and no link was passed over
C3_Witness ==
    pc = "for" /\ i = 1 /\ name # <<>> /\ link = <<>> /\ fetches = 0 /\ data = <<>>

\* C6: a viable card whose detail page fails to load still gets its record,
\* with its name and link and every detail field empty; the emitted count
\* goes up by one and the walk goes on with the next card.
C6_FailedDetailStillEmits ==
    /\ []((pc \in {"d_finally", "append"} /\ navFailed)
            => details = EmptyDetails /\ name # <<>> /\ full_link # <<>>)
    /\ [][(pc = "d_finally" /\ pc' # pc) => pc' = "append"]_vars
    /\ [][(pc = "append" /\ pc' # pc /\ navFailed)
            => /\ data' = Append(data, Record(name, full_link, page_count, EmptyDetails))
               /\ scraped_count' = scraped_count + 1
               /\ pc' = "for" /\ i' = i + 1]_vars

\* the record of a card whose detail page failed to load was appended
C6_Witness ==
    /\ pc = "for" /\ navFailed /\ i >= 1 /\ Len(data) >= 1
    /\ data[Len(data)].Name # <<>> /\ data[Len(data)].Link # <<>>
    /\ data[Len(data)].Phone = <<>> /\ data[Len(data)].Reviews_Count = <<>>

\* C7: a detail page is open only inside _extract_restaurant_details: at
\* most one at a time, and none once the call has returned, whichever way
\* it ended.
C7_DetailPageClosed ==
    /\ open_pages <= 1
    /\ pc \notin {"d_goto", "d_extract", "d_finally"}
         => open_pages = 0 /\ detail_page # "open"

\* a detail page that failed to load had been opened and is closed again
C7_Witness ==
    pc = "append" /\ navFailed /\ detail_page = "closed" /\ open_pages = 0

\* C8: once launched, the browser is shut down exactly once on every way out
\* of the walk, and nothing is done with a page after that.
C8_BrowserClosedOnce ==
    /\ closes <= 1
    /\ (browser = "closed") = (closes = 1)
    /\ pc \in {"save", "done", "interrupted"} => browser = "closed"
    /\ browser = "closed"
         => pc \in {"save", "done", "interrupted"} /\ open_pages = 0
    /\ pc = "raised" => browser = "none" /\ closes = 0

\* the run ended on a listing that failed to load, the browser closed once
C8_Witness == pc = "done" /\ loadFailedAt > 0 /\ closes = 1 /\ browser = "closed"

\* C9: when the card container does not appear on page k, no further page is
\* scanned and what is returned is exactly the records of the pages before
\* k, in their order.
C9_LoadFailureKeepsRecords ==
    /\ [][loadFailedAt > 0
            => /\ data' = data
               /\ page_count' = page_count
               /\ pc' \in {"finally", "save", "done"}]_vars
    /\ [](loadFailedAt > 0
            => /\ loadFailedAt = page_count
               /\ \A k \in 1..Len(data) : data[k].Page_Number < loadFailedAt)
    /\ []((pc = "done" /\ loadFailedAt > 0) => returned = data)

\* the second page failed to load and the first page's record came back
C9_Witness == pc = "done" /\ loadFailedAt = 2 /\ Len(returned) = 1

\* <<page, index>> pairs in discovery order
Earlier(a, b) == a[1] < b[1] \/ (a[1] = b[1] /\ a[2] < b[2])

\* C10: the output sequence only grows at its end, and in discovery order:
\* by listing page, and within a page by the position of the card.
C10_AppendOnlyInOrder ==
    /\ [][\/ data' = data
          \/ /\ Len(data') = Len(data) + 1
             /\ SubSeq(data', 1, Len(data)) = data
             /\ data'[Len(data')].Page_Number = page_count
             /\ disc' = <<page_count, i>>
             /\ Earlier(disc, disc')]_vars
    /\ [](\A j, k \in 1..Len(data) :
             j < k => data[j].Page_Number <= data[k].Page_Number)

\* records of two pages stand in the output, the first page's first
C10_Witness ==
    Len(data) = 2 /\ data[1].Page_Number = 1 /\ data[2].Page_Number = 2

\* An absolute URL: one on the site's origin, or one that carries a scheme
\* of its own ("h" stands for "https://host").
IsAbsolute(l) == StartsWith(l, base_url) \/ StartsWith(l, <<"h">>)

\* C11: the Link of every emitted record is an absolute URL: a site-relative
\* href (leading "/") comes out as origin + href, an absolute href comes
\* out as it is, and no record carries a Link that is not absolute.
C11_LinkIsAbsolute ==
    /\ pc \in DetailPcs \cup {"append"}
         => /\ StartsWith(link, <<"/">>) => full_link = base_url \o link
            /\ IsAbsolute(link) => full_link = link
    /\ \A k \in 1..Len(data) : IsAbsolute(data[k].Link)

\* C14: when no selector of the advancing step yields a control that is
\* there and enabled, the walk ends the normal way, not as a failure, and
\* hands back every record collected so far; on a listing of one page whose
\* cards are fewer than limit every card is scanned and every record carries
\* Page_Number 1.
C14_NoNextEndsNormally ==
    /\ [][(/\ pc = "next" /\ sel > NumNextSelectors
            /\ pc' # pc /\ ending' # "interrupt")
            => pc' = "finally" /\ ending' = "no_next" /\ data' = data]_vars
    /\ [][ending = "no_next"
            => /\ data' = data /\ ending' = ending
               /\ pc' \in {"finally", "save", "done"}]_vars
    /\ []((pc = "done" /\ ending = "no_next")
            => /\ returned = data /\ csv = data
               /\ Len(returned) < limit
               /\ browser = "closed")
    /\ []((pc = "done" /\ ending = "no_next" /\ page_count = 1)
            => \A k \in 1..Len(returned) : returned[k].Page_Number = 1)
    /\ []((pc = "advance" /\ scraped_count < limit) => i = cards_count)

\* a listing of one page with fewer viable cards than limit: its record came
\* back, and the walk ended for want of a next control
C14_Witness ==
    /\ pc = "done" /\ ending = "no_next"
    /\ page_count = 1 /\ clicks = 0 /\ limit = 2
    /\ Len(returned) = 1 /\ returned[1].Page_Number = 1

\* C15: a stop signal that arrives while the walk waits takes the run
\* straight to the browser's shutdown, with no further card or page touched,
\* and the records appended before it are handed back and written out.
C15_InterruptKeepsRecords ==
    /\ [][(ending # "interrupt" /\ ending' = "interrupt")
            => pc' = "finally" /\ data' = data]_vars
    /\ [][ending = "interrupt"
            => /\ data' = data
               /\ fetches' = fetches /\ clicks' = clicks]_vars
    /\ []((Terminal /\ ending = "interrupt")
            => browser = "closed" /\ returned = data /\ csv = data)

\* C17: an exception raised while card i is processed stays with that card:
\* nothing of the run changes but the loop index, the cards after i are
\* processed in their order, and after the last of them the walk goes on to
\* the advancing step.
C17_CardExceptionConfined ==
    /\ [][(pc = "card" /\ card_failed' /\ ending' # "interrupt")
            => /\ pc' = "for" /\ i' = i + 1
               /\ data' = data /\ scraped_count' = scraped_count
               /\ cards_count' = cards_count /\ page_count' = page_count
               /\ browser' = browser /\ ending' = ending]_vars
    /\ [][(pc = "for" /\ card_failed /\ pc' # pc /\ ending' # "interrupt")
            => IF i < cards_count
               THEN pc' = "card" /\ i' = i
               ELSE pc' = "advance"]_vars
    /\ []((card_failed /\ ending # "interrupt")
            => pc \in {"for", "card", "advance"} /\ ending = "none")

\* the first card of a page raised, and the second one is being processed
C17_Witness ==
    pc = "card" /\ card_failed /\ i = 1 /\ cards_count = 2 /\ ending = "none"

\* C18: the Page_Number of every record is positive and is 1 + the number of
\* next controls clicked before its card was scanned; the page counter never
\* goes down.
C18_PageNumberCountsClicks ==
    /\ [](\A k \in 1..Len(data) : data[k].Page_Number >= 1)
    /\ [][page_count' >= page_count]_vars
    /\ [][Len(data') > Len(data)
            => data'[Len(data')].Page_Number = 1 + clicks]_vars

\* C19: in one advancing step the next control is clicked at most once,
\* whichever selectors match it; and once it was clicked the walk goes on to
\* scan the page that results, also when the wait for network idle after
\* the click times out, and never ends for want of further pages.
C19_OneClickThenScan ==
    /\ [][(pc = "next" /\ clicks' # clicks) => step_clicks = 0]_vars
    /\ [][(pc = "next" /\ clicks' # clicks) => pc' = "while"]_vars
    /\ [][(pc = "next" /\ ending' = "no_next") => step_clicks = 0]_vars

\* -------------------------------------------- the detail fields: properties
RECURSIVE SplitTags(_, _)
\* The tags of a comma-joined field read back, acc being the tag under way.
SplitTags(s, acc) ==
    IF s = <<>> THEN <<acc>>
    ELSE IF Len(s) >= 2 /\ s[1] = "," /\ s[2] = " "
         THEN <<acc>> \o SplitTags(SubSeq(s, 3, Len(s)), <<>>)
         ELSE SplitTags(Tail(s), Append(acc, s[1]))

TagsOf(field) == IF field = <<>> THEN <<>> ELSE SplitTags(field, <<>>)

\* the inner texts of the page's cuisine matches, in match order
RawTags == InnerTexts(Select(d_dom, CuisineSelector))

\* C12: whatever the number of raw cuisine matches, Cuisine holds at most 5
\* comma-joined tags, and they are the first 5 retained tags, in match order
\* (all of them when fewer than 5 are retained).
C12_CuisineCappedInOrder ==
    (d_pc = "out" /\ ~CuisineTry(d_dom).raised)
    => LET tags == TagsOf(d_out.Cuisine)
           kept == FilterTags(RawTags)
       IN  /\ Len(tags) <= 5
           /\ Len(tags) = IF Len(kept) < 5 THEN Len(kept) ELSE 5
           /\ \A k \in 1..Len(tags) : tags[k] = kept[k]

\* more than 5 matches were retained, of which Cuisine holds the first 5
C12_Witness ==
    /\ d_pc = "out"
    /\ Len(RawTags) > 5 /\ Len(FilterTags(RawTags)) > 5
    /\ Len(TagsOf(d_out.Cuisine)) = 5
    /\ \E j, k \in 1..5 : TagsOf(d_out.Cuisine)[j] # TagsOf(d_out.Cuisine)[k]

\* a raw match that is a non-data label once trimmed and put in lower case
IsLabel(text) == Lower(Strip(text)) \in NonDataLabels

\* C13: no tag of Cuisine is a non-data label ("details", "menu", "photos")
\* once trimmed and put in lower case: every raw match that is such a label,
\* in any case and with any white space around it, is filtered out.
C13_LabelsFiltered ==
    d_pc = "out"
    => /\ \A k \in 1..Len(TagsOf(d_out.Cuisine)) :
             ~IsLabel(TagsOf(d_out.Cuisine)[k])
       /\ Len(TagsOf(d_out.Cuisine))
             <= Cardinality({ k \in 1..Len(RawTags) :
                                Strip(RawTags[k]) # <<>> /\ ~IsLabel(RawTags[k]) })

\* the first element the selector matches, when it is there and can be read
Readable(dom, selector) ==
    Select(dom, selector) # <<>> /\ Select(dom, selector)[1].live

FirstText(dom, selector) == Strip(Select(dom, selector)[1].text)

\* C16: on a detail page that has loaded, a field that cannot be resolved
\* (the cuisine lookup included) is the only one left empty: every other
\* field is still read, and holds its element's text when the element is
\* there.
C16_FieldFailureIsLocal ==
    d_pc = "out"
    => /\ Readable(d_dom, PhoneSelector)
             => d_out.Phone = FirstText(d_dom, PhoneSelector)
       /\ Readable(d_dom, RatingSelector)
             => d_out.Rating = FirstText(d_dom, RatingSelector)
       /\ Readable(d_dom, AddressSelector)
             => d_out.Address = FirstText(d_dom, AddressSelector)
       /\ (~CuisineTry(d_dom).raised /\ FilterTags(RawTags) # <<>>)
             => d_out.Cuisine # <<>>
       /\ Readable(d_dom, PriceSelector)
             => d_out.Price_Range = FirstText(d_dom, PriceSelector)
       /\ Readable(d_dom, ReviewsSelector)
             => d_out.Reviews_Count = FirstText(d_dom, ReviewsSelector)

====
